---- MODULE Spec2Model ----
(***************************************************************************)
(* Model of pokemon_generator: the PokemonGenerator runtime (load_model,    *)
(* save_model, generate) and its train() loop with the two step functions  *)
(* train_d_model / train_g_model of _utils.py.                             *)
(*                                                                         *)
(* Parameters are small integers (one scalar per generator, a short vector *)
(* per discriminator); an optimizer step moves each parameter it is bound  *)
(* to by a data-dependent amount of at most MaxStep.  The networks are     *)
(* opaque: a forward pass is the triple of what it depends on.             *)
(***************************************************************************)
EXTENDS Integers, Sequences, FiniteSets, TLC

\* ---------------------------------------------------------------- bounds
Epochs == 2          \* config.training.epochs
MaxBatches == 2      \* batches the loader yields per epoch: 0..MaxBatches
NumDParams == 1      \* discriminator parameters
MaxStep == 1         \* largest move of one parameter in one optimizer step
GMax == 1            \* generator parameter values are 0..GMax
RngPeriod == 2       \* states of the global random generator
NumSeeds == 2        \* seed arguments tried

\* config.training.clamp_value
ClampValue == 1

Instances == {1, 2}
Seeds == 1..NumSeeds
GVals == 0..GMax
DIdx == 1..NumDParams
DMax == ClampValue + MaxStep
DVals == (0 - DMax)..DMax
Steps == (0 - MaxStep)..MaxStep
None == [none |-> TRUE]
NoOutput == [noOutput |-> TRUE]
NoErr == "none"

VARIABLES
    file,        \* the checkpoint at model_path: None or [shape, params]
    savedFrom,   \* the model whose state_dict the file holds (None: not written by an instance)
    model,       \* self.model of each instance: None or [params, mode]
    loadedFrom,  \* per instance: savedFrom of the checkpoint its model was restored from
    touched,     \* per instance: load_model() or train() has been called
    rng,         \* torch's global random generator
    prevGen,     \* the generate() call before the last one
    lastGen,     \* the last generate() call: [inst, seed, m, out, err]
    lastCall,    \* the last public call that returned: [op, inst, err]
    pc,          \* position inside train(): "idle" before, "returned" after
    trainer,     \* the instance running train()
    numBatches,  \* len(data_loader)
    epoch, idx,  \* loop variables of train()
    dParams, gParams,   \* d_model / g_model parameters
    dGrad, gGrad,       \* steps whose backward pass is accumulated in .grad
    dApplied, gApplied, \* last optimizer step: [step, grads]
    dLosses, gLosses,   \* len(d_losses), len(g_losses)
    plots, samples,     \* losses.jpg writes, sample files E<n>.jpg
    trace,              \* clamp / critic / generator events of this train() call
    fileAtStart,        \* the checkpoint when train() was entered
    trainSaves          \* checkpoint writes of this train() call

rtVars == <<file, savedFrom, model, loadedFrom, touched, prevGen, lastGen, lastCall>>
trainVars == <<pc, trainer, numBatches, epoch, idx, dParams, gParams, dGrad, gGrad,
               dApplied, gApplied, dLosses, gLosses, plots, samples, trace,
               fileAtStart, trainSaves>>
vars == <<file, savedFrom, model, loadedFrom, touched, rng, prevGen, lastGen, lastCall,
          pc, trainer, numBatches, epoch, idx, dParams, gParams, dGrad, gGrad,
          dApplied, gApplied, dLosses, gLosses, plots, samples, trace,
          fileAtStart, trainSaves>>

\* ---------------------------------------------------------------- helpers
Min(a, b) == IF a < b THEN a ELSE b
Max(a, b) == IF a > b THEN a ELSE b

\* torch.randn: the draw is a function of the generator state, which advances
Latent(r) == r
Advance(r) == (r + 1) % RngPeriod

\* models.Generator forward pass
Forward(m, latent) == [params |-> m.params, mode |-> m.mode, latent |-> latent]

\* para.data.clamp_(-clamp_value, clamp_value)
Clamp(x) == Max(0 - ClampValue, Min(ClampValue, x))

NoStep == [step |-> <<"none", 0>>, grads |-> {}]
ZeroD == [p \in DIdx |-> 0]

\* ---------------------------------------------------------------- Init
Init ==
    /\ file \in {None} \cup [shape : {"ok", "bad"}, params : GVals]
    /\ savedFrom = None
    /\ model = [i \in Instances |-> None]
    /\ loadedFrom = [i \in Instances |-> None]
    /\ touched = [i \in Instances |-> FALSE]
    /\ rng = 0
    /\ prevGen = None
    /\ lastGen = None
    /\ lastCall = [op |-> "none", inst |-> 0, err |-> NoErr]
    /\ pc = "idle"
    /\ trainer = 0
    /\ numBatches = 0
    /\ epoch = 0
    /\ idx = 0
    /\ dParams = ZeroD
    /\ gParams = 0
    /\ dGrad = {}
    /\ gGrad = {}
    /\ dApplied = NoStep
    /\ gApplied = NoStep
    /\ dLosses = 0
    /\ gLosses = 0
    /\ plots = 0
    /\ samples = {}
    /\ trace = <<>>
    /\ fileAtStart = None
    /\ trainSaves = 0

\* ---------------------------------------------------------------- runtime
\* load_model(): self.model is assigned the new Generator before torch.load
\* and load_state_dict run; eval() is reached only when both succeed.
LoadResult(f, fresh) ==
    IF f = None THEN [model |-> fresh, err |-> "FileNotFoundError"]
    ELSE IF f.shape # "ok" THEN [model |-> fresh, err |-> "RuntimeError"]
    ELSE [model |-> [params |-> f.params, mode |-> "eval"], err |-> NoErr]

load_model(i) ==
    /\ pc = "idle"
    /\ \E p0 \in GVals :
         LET fresh == [params |-> p0, mode |-> "train"]
             r == LoadResult(file, fresh)
         IN /\ model' = [model EXCEPT ![i] = r.model]
            /\ loadedFrom' = [loadedFrom EXCEPT ![i] =
                                 IF r.err = NoErr THEN savedFrom ELSE None]
            /\ lastCall' = [op |-> "load_model", inst |-> i, err |-> r.err]
    /\ touched' = [touched EXCEPT ![i] = TRUE]
    /\ rng' = Advance(rng)
    /\ UNCHANGED <<file, savedFrom, prevGen, lastGen>>
    /\ UNCHANGED trainVars

\* torch.save(self.model.state_dict(), self.model_path)
SaveResult(m, f) ==
    IF m = None THEN [file |-> f, err |-> "AttributeError"]
    ELSE [file |-> [shape |-> "ok", params |-> m.params], err |-> NoErr]

save_model(i) ==
    /\ pc = "idle"
    /\ LET r == SaveResult(model[i], file)
       IN /\ file' = r.file
          /\ savedFrom' = IF r.err = NoErr THEN model[i] ELSE savedFrom
          /\ lastCall' = [op |-> "save_model", inst |-> i, err |-> r.err]
    /\ UNCHANGED <<model, loadedFrom, touched, rng, prevGen, lastGen>>
    /\ UNCHANGED trainVars

\* generate(seed): the latent vector is drawn from the global generator; the
\* seed argument is not read.  With self.model None the call self.model(...)
\* raises TypeError.
GenResult(m, seed, r) ==
    IF m = None THEN [out |-> NoOutput, err |-> "TypeError"]
    ELSE [out |-> Forward(m, Latent(r)), err |-> NoErr]

generate(i, seed) ==
    /\ pc = "idle"
    /\ LET r == GenResult(model[i], seed, rng)
       IN /\ prevGen' = lastGen
          /\ lastGen' = [inst |-> i, seed |-> seed, m |-> model[i],
                         out |-> r.out, err |-> r.err]
          /\ lastCall' = [op |-> "generate", inst |-> i, err |-> r.err]
    /\ rng' = Advance(rng)
    /\ UNCHANGED <<file, savedFrom, model, loadedFrom, touched>>
    /\ UNCHANGED trainVars

\* ---------------------------------------------------------------- train()
\* torch.optim.RMSprop(params=d_model.parameters()) and
\* torch.optim.RMSprop(params=g_model.parameters()): the model each optimizer
\* holds the parameters of.
d_optimizerAll == {"d", "g"}
d_optimizer == {"d"}
g_optimizer == {"g"}

\* optimizer.step(): every parameter the optimizer holds moves by its update
StepD(opt, dP, deltas) ==
    IF "d" \in opt THEN [p \in DIdx |-> dP[p] - deltas[p]] ELSE dP
StepG(opt, g, delta) ==
    IF "g" \in opt THEN g - delta ELSE g

\* g_model as train() leaves it in self.model: constructed in training mode,
\* eval() is never called on it
TrainedModel(g) == [params |-> g, mode |-> "train"]

\* train() up to the first loop test: dataset and loader, both models
\* constructed and initialised, optimizers, loss lists, fixed_latent_vector.
StartTrain(i) ==
    /\ pc = "idle"
    /\ pc' = "loop"
    /\ trainer' = i
    /\ numBatches' \in 0..MaxBatches
    /\ epoch' = 0
    /\ idx' = 0
    /\ dParams' \in [DIdx -> DVals]
    /\ gParams' \in GVals
    /\ dGrad' = {}
    /\ gGrad' = {}
    /\ dApplied' = NoStep
    /\ gApplied' = NoStep
    /\ dLosses' = 0
    /\ gLosses' = 0
    /\ plots' = 0
    /\ samples' = {}
    /\ trace' = <<>>
    /\ fileAtStart' = file
    /\ trainSaves' = 0
    /\ touched' = [touched EXCEPT ![i] = TRUE]
    /\ rng' = Advance(rng)
    /\ UNCHANGED <<file, savedFrom, model, loadedFrom, prevGen, lastGen, lastCall>>

\* for idx, (real_images, _) in enumerate(data_loader): a batch is there
NextBatch ==
    /\ pc = "loop"
    /\ idx < numBatches
    /\ pc' = "clamp"
    /\ UNCHANGED <<trainer, numBatches, epoch, idx, dParams, gParams, dGrad, gGrad,
                   dApplied, gApplied, dLosses, gLosses, plots, samples, trace,
                   fileAtStart, trainSaves>>
    /\ UNCHANGED <<rng>>
    /\ UNCHANGED rtVars

ClampStepSkipsCritic ==
    /\ pc = "clamp"
    /\ pc' = "gen"
    /\ dParams' = [p \in DIdx |-> Clamp(dParams[p])]
    /\ trace' = Append(trace, <<"clamp", epoch, idx>>)
    /\ UNCHANGED <<trainer, numBatches, epoch, idx, gParams, dGrad, gGrad,
                   dApplied, gApplied, dLosses, gLosses, plots, samples,
                   fileAtStart, trainSaves>>
    /\ UNCHANGED <<rng>>
    /\ UNCHANGED rtVars

\* for para in d_model.parameters(): para.data.clamp_(...)
ClampStep ==
    /\ pc = "clamp"
    /\ pc' = "critic"
    /\ dParams' = [p \in DIdx |-> Clamp(dParams[p])]
    /\ trace' = Append(trace, <<"clamp", epoch, idx>>)
    /\ UNCHANGED <<trainer, numBatches, epoch, idx, gParams, dGrad, gGrad,
                   dApplied, gApplied, dLosses, gLosses, plots, samples,
                   fileAtStart, trainSaves>>
    /\ UNCHANGED <<rng>>
    /\ UNCHANGED rtVars

\* train_d_model: d_model.zero_grad(); the loss is built from the real batch
\* and a detached fake batch, so backward() reaches d_model only.
CriticDGradNoZero(dg, tok) == dg \cup {tok}
CriticDGrad(dg, tok) == {tok}
CriticGGrad(gg, tok) == gg

CriticStep ==
    /\ pc = "critic"
    /\ pc' = "gen"
    /\ LET tok == <<"d", Len(trace) + 1>>
           dg == CriticDGrad(dGrad, tok)
           gg == CriticGGrad(gGrad, tok)
       IN /\ dGrad' = dg
          /\ gGrad' = gg
          /\ dApplied' = [step |-> tok, grads |-> dg]
          /\ \E deltas \in [DIdx -> Steps], gd \in Steps :
               /\ StepG(d_optimizer, gParams, gd) \in GVals
               /\ dParams' = StepD(d_optimizer, dParams, deltas)
               /\ gParams' = StepG(d_optimizer, gParams, gd)
    /\ dLosses' = dLosses + 1
    /\ trace' = Append(trace, <<"critic", epoch, idx>>)
    /\ rng' = Advance(rng)
    /\ UNCHANGED <<trainer, numBatches, epoch, idx, gApplied, gLosses, plots,
                   samples, fileAtStart, trainSaves>>
    /\ UNCHANGED rtVars

\* train_g_model: g_model.zero_grad(); backward() runs through d_model into
\* g_model, so both models accumulate gradient; only g_optimizer steps.
GenGGrad(gg, tok) == {tok}
GenDGrad(dg, tok) == dg \cup {tok}

GenStep ==
    /\ pc = "gen"
    /\ pc' = "loop"
    /\ idx' = idx + 1
    /\ LET tok == <<"g", Len(trace) + 1>>
           gg == GenGGrad(gGrad, tok)
           dg == GenDGrad(dGrad, tok)
       IN /\ gGrad' = gg
          /\ dGrad' = dg
          /\ gApplied' = [step |-> tok, grads |-> gg]
          /\ \E deltas \in [DIdx -> Steps], gd \in Steps :
               /\ StepG(g_optimizer, gParams, gd) \in GVals
               /\ dParams' = StepD(g_optimizer, dParams, deltas)
               /\ gParams' = StepG(g_optimizer, gParams, gd)
    /\ gLosses' = gLosses + 1
    /\ trace' = Append(trace, <<"gen", epoch, idx>>)
    /\ rng' = Advance(rng)
    /\ UNCHANGED <<trainer, numBatches, epoch, dApplied, dLosses, plots,
                   samples, fileAtStart, trainSaves>>
    /\ UNCHANGED rtVars

\* d_losses[-1] / g_losses[-1] in the print after the batch loop
LastLossNoRaise(n) == NoErr
LastLoss(n) == IF n = 0 THEN "IndexError" ELSE NoErr

\* the loader is exhausted: the end-of-epoch print
EndOfBatches ==
    /\ pc = "loop"
    /\ idx >= numBatches
    /\ LET e == IF LastLoss(dLosses) # NoErr THEN LastLoss(dLosses)
                ELSE LastLoss(gLosses)
       IN IF e # NoErr
          THEN /\ pc' = "returned"
               /\ lastCall' = [op |-> "train", inst |-> trainer, err |-> e]
          ELSE /\ pc' = "plot"
               /\ UNCHANGED lastCall
    /\ UNCHANGED <<trainer, numBatches, epoch, idx, dParams, gParams, dGrad, gGrad,
                   dApplied, gApplied, dLosses, gLosses, plots, samples, trace,
                   fileAtStart, trainSaves>>
    /\ UNCHANGED <<file, savedFrom, model, loadedFrom, touched, rng, prevGen, lastGen>>

\* plt.plot ... plt.savefig(losses.jpg)
PlotStep ==
    /\ pc = "plot"
    /\ pc' = "sample"
    /\ plots' = plots + 1
    /\ UNCHANGED <<trainer, numBatches, epoch, idx, dParams, gParams, dGrad, gGrad,
                   dApplied, gApplied, dLosses, gLosses, samples, trace,
                   fileAtStart, trainSaves>>
    /\ UNCHANGED <<rng>>
    /\ UNCHANGED rtVars

SampleStepSaves ==
    /\ pc = "sample"
    /\ samples' = samples \cup {epoch + 1}
    /\ epoch' = epoch + 1
    /\ idx' = 0
    /\ pc' = IF epoch + 1 < Epochs THEN "loop" ELSE "finalize"
    /\ file' = SaveResult(TrainedModel(gParams), file).file
    /\ UNCHANGED <<trainer, numBatches, dParams, gParams, dGrad, gGrad,
                   dApplied, gApplied, dLosses, gLosses, plots, trace,
                   fileAtStart, trainSaves>>
    /\ UNCHANGED <<savedFrom, model, loadedFrom, touched, rng, prevGen, lastGen, lastCall>>

\* save_samples(E<epoch+1>.jpg, g_model(fixed_latent_vector)), then the next
\* value of range(config.training.epochs)
SampleStep ==
    /\ pc = "sample"
    /\ samples' = samples \cup {epoch + 1}
    /\ epoch' = epoch + 1
    /\ idx' = 0
    /\ pc' = IF epoch + 1 < Epochs THEN "loop" ELSE "finalize"
    /\ UNCHANGED <<trainer, numBatches, dParams, gParams, dGrad, gGrad,
                   dApplied, gApplied, dLosses, gLosses, plots, trace,
                   fileAtStart, trainSaves>>
    /\ UNCHANGED <<rng>>
    /\ UNCHANGED rtVars

\* self.model = g_model; self.save_model()
Finalize ==
    /\ pc = "finalize"
    /\ pc' = "returned"
    /\ LET m == TrainedModel(gParams)
           r == SaveResult(m, file)
       IN /\ model' = [model EXCEPT ![trainer] = m]
          /\ file' = r.file
          /\ savedFrom' = m
          /\ lastCall' = [op |-> "train", inst |-> trainer, err |-> r.err]
    /\ loadedFrom' = [loadedFrom EXCEPT ![trainer] = None]
    /\ trainSaves' = trainSaves + 1
    /\ UNCHANGED <<trainer, numBatches, epoch, idx, dParams, gParams, dGrad, gGrad,
                   dApplied, gApplied, dLosses, gLosses, plots, samples, trace,
                   fileAtStart>>
    /\ UNCHANGED <<touched, rng, prevGen, lastGen>>

\* an exception of the compute backend or of the plot / image writers in a
\* step of the loop: nothing in train() catches it
TrainAbort ==
    /\ pc \in {"clamp", "critic", "gen", "plot", "sample"}
    /\ pc' = "returned"
    /\ lastCall' = [op |-> "train", inst |-> trainer, err |-> "Exception"]
    /\ UNCHANGED <<trainer, numBatches, epoch, idx, dParams, gParams, dGrad, gGrad,
                   dApplied, gApplied, dLosses, gLosses, plots, samples, trace,
                   fileAtStart, trainSaves>>
    /\ UNCHANGED <<file, savedFrom, model, loadedFrom, touched, rng, prevGen, lastGen>>

\* train() as one call, seen from its caller: it either raises somewhere in
\* the loop, or returns with the trained generator adopted and saved
train(i) ==
    /\ pc = "idle"
    /\ touched' = [touched EXCEPT ![i] = TRUE]
    /\ rng' = Advance(rng)
    /\ \/ /\ lastCall' = [op |-> "train", inst |-> i, err |-> "Exception"]
          /\ UNCHANGED <<file, savedFrom, model, loadedFrom>>
       \/ \E g \in GVals :
            LET m == TrainedModel(g)
                r == SaveResult(m, file)
            IN /\ model' = [model EXCEPT ![i] = m]
               /\ file' = r.file
               /\ savedFrom' = m
               /\ loadedFrom' = [loadedFrom EXCEPT ![i] = None]
               /\ lastCall' = [op |-> "train", inst |-> i, err |-> r.err]
    /\ UNCHANGED <<prevGen, lastGen>>
    /\ UNCHANGED trainVars

\* ---------------------------------------------------------------- spec
\* the public calls of PokemonGenerator instances, one after another
NextRuntime ==
    \/ \E i \in Instances : load_model(i)
    \/ \E i \in Instances : save_model(i)
    \/ \E i \in Instances, s \in Seeds : generate(i, s)
    \/ \E i \in Instances : train(i)

SpecRuntime == Init /\ [][NextRuntime]_vars

\* one train() call, step by step, until it has returned or raised
Next ==
    \/ \E i \in Instances : StartTrain(i)
    \/ NextBatch
    \/ ClampStep
    \/ CriticStep
    \/ GenStep
    \/ EndOfBatches
    \/ PlotStep
    \/ SampleStep
    \/ Finalize
    \/ TrainAbort

Spec == Init /\ [][Next]_vars

\* ---------------------------------------------------------------- claims
Abs(x) == IF x < 0 THEN 0 - x ELSE x
InTrain == pc \in {"loop", "clamp", "critic", "gen", "plot", "sample", "finalize"}
Returned == pc = "returned"
ReturnedOk == pc = "returned" /\ lastCall.err = NoErr
ReturnedErr == pc = "returned" /\ lastCall.err # NoErr

\* the k-th event of a run over n batches per epoch
Kinds == <<"clamp", "critic", "gen">>
ExpectedEvent(k, n) ==
    LET q == (k - 1) \div 3
    IN <<Kinds[((k - 1) % 3) + 1], q \div n, q % n>>

\* C1: the clamp, critic and generator events of a train() call are, in order,
\* clamp - critic step - generator step of batch 0, 1, ... of epoch 0, then of
\* epoch 1, ...: one of each per batch, no batch begun before the previous
\* one's generator step, and a call that returns has run all of them.
C1_Ordering ==
    /\ \A k \in 1..Len(trace) : trace[k] = ExpectedEvent(k, numBatches)
    /\ pc \in {"loop", "plot", "sample", "finalize"}
         => Len(trace) = 3 * (epoch * numBatches + idx)
    /\ ReturnedOk => Len(trace) = 3 * Epochs * numBatches
    /\ dLosses = (Len(trace) + 1) \div 3
    /\ gLosses = Len(trace) \div 3

C1_Witness == ReturnedOk /\ numBatches >= 2 /\ Len(trace) >= 12

\* C2: once the critic step that follows a clamp has finished, every
\* discriminator parameter lies within [-clamp_value, clamp_value].
C2_ClampedAfterCritic ==
    pc = "gen" => \A p \in DIdx : Abs(dParams[p]) <= ClampValue

\* C3: train() writes the checkpoint only in its final step, once, after the
\* last batch of the last epoch; while it runs, and when it has raised, the
\* file is what it was when train() was entered.
C3_CheckpointOnlyAtEnd ==
    /\ InTrain => file = fileAtStart /\ trainSaves = 0
    /\ ReturnedErr => file = fileAtStart /\ trainSaves = 0
    /\ ReturnedOk => /\ trainSaves = 1
                     /\ epoch = Epochs
                     /\ Len(trace) = 3 * Epochs * numBatches
                     /\ file = [shape |-> "ok", params |-> gParams]

C3_Witness ==
    /\ ReturnedErr
    /\ lastCall.err = "Exception"
    /\ epoch >= 1
    /\ fileAtStart # None

\* C7: a critic step leaves the generator's parameters as they were, a
\* generator step leaves the discriminator's, and between construction and
\* return no other step of train() changes a parameter, but for the clamp,
\* which changes discriminator parameters only.
C7_Frame ==
    [][ /\ pc \in {"loop", "clamp", "critic", "plot", "sample", "finalize"}
           => gParams' = gParams
        /\ pc \in {"loop", "gen", "plot", "sample", "finalize"}
           => dParams' = dParams ]_vars

C7_Witness ==
    /\ pc = "loop"
    /\ Len(trace) >= 6
    /\ dApplied.step[1] = "d"
    /\ gApplied.step[1] = "g"

C10_FreshGradients ==
    /\ dApplied.step[1] # "none" => dApplied.grads = {dApplied.step}
    /\ gApplied.step[1] # "none" => gApplied.grads = {gApplied.step}
    /\ \A t \in gGrad : t[1] = "g"

C10_Witness ==
    /\ pc = "gen"
    /\ dApplied.step[2] >= 5
    /\ \E t \in dGrad : t[1] = "d"

\* C4: generate() on an instance on which neither load_model() nor train() was
\* called fails with an error naming the missing model, and returns nothing.
C4_ModelNotLoadedError ==
    (lastCall.op = "generate" /\ ~touched[lastCall.inst]) =>
        /\ lastCall.err = "ModelNotLoadedError"
        /\ lastGen.out = NoOutput

\* C5: two generate(s) calls with the same seed on the same loaded model return
\* the same output.
C5_SeedReproducible ==
    ( /\ prevGen # None
      /\ lastGen # None
      /\ prevGen.err = NoErr
      /\ lastGen.err = NoErr
      /\ prevGen.inst = lastGen.inst
      /\ prevGen.seed = lastGen.seed
      /\ prevGen.m = lastGen.m
      /\ lastGen.m.mode = "eval" )
    => prevGen.out = lastGen.out

\* C6: generate(seed) on an instance that load_model() restored from a saved
\* checkpoint returns what generate(seed) returns on another instance holding
\* the model that was saved.
C6_RoundTrip ==
    ( /\ lastCall.op = "generate"
      /\ lastCall.err = NoErr
      /\ prevGen # None
      /\ prevGen.err = NoErr
      /\ prevGen.inst # lastGen.inst
      /\ prevGen.seed = lastGen.seed
      /\ loadedFrom[lastGen.inst] # None
      /\ loadedFrom[lastGen.inst] = prevGen.m )
    => lastGen.out = prevGen.out

\* C9: a load_model() call that fails leaves self.model as it was.
C9_FailedLoadKeepsModel ==
    [][ (lastCall'.op = "load_model" /\ lastCall'.err # NoErr)
        => model'[lastCall'.inst] = model[lastCall'.inst] ]_vars

====
